---- MODULE Spec2Model ----
(***************************************************************************)
(* A model of mygit's object store (src/mygit.py): hash_object,           *)
(* find_object, read_object, cat_file and read_tree, over a filesystem of *)
(* bucket directories and object files (src/file_io.py).                  *)
(*                                                                         *)
(* Python str and bytes values are sequences of code points / byte values *)
(* (naturals); a Python exception is the status of the call's result.     *)
(***************************************************************************)
EXTENDS Integers, Sequences, FiniteSets, TLC

\* ------------------------------------------------------------------ bytes

NUL == 0
SP == 32
NL == 10
TAB == 9

\* The str literals the code compares against, as code-point sequences.
Blob == <<98, 108, 111, 98>>
Tree == <<116, 114, 101, 101>>
Commit == <<99, 111, 109, 109, 105, 116>>
Kinds == {Blob, Tree, Commit}

Min(a, b) == IF a < b THEN a ELSE b
Max(a, b) == IF a > b THEN a ELSE b

\* Python's s[a:b] (0-based, end-exclusive, negative indices count from the end).
PyIndex(L, a) == IF a < 0 THEN Max(L + a, 0) ELSE Min(a, L)
PySlice(s, a, b) ==
    LET lo == PyIndex(Len(s), a)
        hi == PyIndex(Len(s), b)
    IN IF hi <= lo THEN <<>> ELSE SubSeq(s, lo + 1, hi)

\* Python's s[a:].
PySliceFrom(s, a) == PySlice(s, a, Len(s))

\* Python's bytes.find(byte, start): the lowest 0-based index >= start, or -1.
PyFind(s, b, start) ==
    LET hits == {n \in start .. (Len(s) - 1) : s[n + 1] = b}
    IN IF hits = {} THEN -1 ELSE CHOOSE n \in hits : \A m \in hits : n <= m

\* Python's str.startswith.
StartsWith(s, p) == Len(p) <= Len(s) /\ SubSeq(s, 1, Len(p)) = p

\* Python's str.lower() on ASCII.
LowerChar(c) == IF c >= 65 /\ c <= 90 THEN c + 32 ELSE c
Lower(s) == [n \in 1 .. Len(s) |-> LowerChar(s[n])]
UpperChar(c) == IF c >= 97 /\ c <= 122 THEN c - 32 ELSE c
Upper(s) == [n \in 1 .. Len(s) |-> UpperChar(s[n])]

\* str(n) for n >= 0: the decimal digits, most significant first.
RECURSIVE Decimal(_)
Decimal(n) == IF n < 10 THEN <<48 + n>> ELSE Decimal(n \div 10) \o <<48 + (n % 10)>>

\* One hexadecimal digit, lowercase, as bytes.hex() and hexdigest() render it.
HexDigit(d) == IF d < 10 THEN 48 + d ELSE 87 + d

\* bytes.hex(): two lowercase hex digits per byte.
Hex(bs) == [n \in 1 .. 2 * Len(bs) |->
              LET b == bs[(n + 1) \div 2]
              IN IF n % 2 = 1 THEN HexDigit(b \div 16) ELSE HexDigit(b % 16)]

\* bytes.decode("utf-8"); the model's bytes are ASCII or the lone byte 255,
\* which no UTF-8 text contains.
Utf8Ok(bs) == \A n \in 1 .. Len(bs) : bs[n] < 128

\* int(bs, 8) succeeds exactly on a non-empty run of octal digits: the model's
\* bytes hold no sign, underscore, prefix letter or whitespace other than
\* the space, which never lies inside a mode string.
IsOctal(bs) == Len(bs) > 0 /\ \A n \in 1 .. Len(bs) : bs[n] >= 48 /\ bs[n] <= 55

RECURSIVE OctalValue(_)
OctalValue(bs) ==
    IF Len(bs) = 0 THEN 0
    ELSE 8 * OctalValue(SubSeq(bs, 1, Len(bs) - 1)) + (bs[Len(bs)] - 48)

\* "{:o}".format(n), then "{:06o}": zero-padded to six digits.
RECURSIVE Octal(_)
Octal(n) == IF n < 8 THEN <<48 + n>> ELSE Octal(n \div 8) \o <<48 + (n % 8)>>

RECURSIVE ZeroPad(_, _)
ZeroPad(bs, width) == IF Len(bs) >= width THEN bs ELSE ZeroPad(<<48>> \o bs, width)

\* stat.S_ISDIR(mode): (mode & 0o170000) == 0o040000.
S_ISDIR(mode) == (mode \div 4096) % 16 = 4

\* ------------------------------------------------------------------ codec

\* Length of the hex object name, of its bucket prefix and of a raw SHA-1.
ShaHexLen == 40
BucketLen == 2
ShaRawLen == 20

\* header + data of hash_object: b"<type> <size>\0" + data.
Encode(kind, data) == kind \o <<SP>> \o Decimal(Len(data)) \o <<NUL>> \o data

\* hashlib.sha1 as a collision-free function of the hashed bytes: the bytes
\* are folded into five bits (a polynomial in 5 modulo 32, 5^8 being 1
\* there), which choose the nibbles of the first, second
\* and last digest bytes; the other digest bytes are zero.  Distinct objects
\* of the model get distinct digests with common hex prefixes of 0, 1, 2, 38
\* and 39 characters.
RECURSIVE Mix(_)
Mix(bs) ==
    IF Len(bs) = 0 THEN 0
    ELSE IF Len(bs) = 1 THEN (bs[1] + 1) % 32
    ELSE LET half == Len(bs) \div 2
             lo == SubSeq(bs, 1, half)
             hi == SubSeq(bs, half + 1, Len(bs))
         IN (Mix(lo) * (5 ^ (Len(hi) % 8)) + Mix(hi)) % 32

Bit(h, n) == (h \div (2 ^ n)) % 2

Sha1(bs) ==
    LET h == Mix(bs)
    IN [n \in 1 .. ShaRawLen |->
          IF n = 1 THEN 16 * (10 + Bit(h, 0)) + 10 + Bit(h, 1)
          ELSE IF n = 2 THEN 16 * (10 + Bit(h, 2))
          ELSE IF n = ShaRawLen THEN 16 * (10 + Bit(h, 3)) + 10 + Bit(h, 4)
          ELSE 0]

\* hashlib.sha1(full).hexdigest()
HexDigest(bs) == Hex(Sha1(bs))

\* zlib.compress: the two-byte stream header, the data and a checksum of it
\* (the deflate coding itself is not modelled).
Checksum(bs) == Mix(bs)
Compress(bs) == <<120, 156>> \o bs \o <<Checksum(bs)>>

\* zlib.decompress succeeds on a complete stream only.
ZlibOk(raw) ==
    /\ Len(raw) >= 3
    /\ raw[1] = 120
    /\ raw[2] = 156
    /\ raw[Len(raw)] = Checksum(SubSeq(raw, 3, Len(raw) - 1))
Decompress(raw) == SubSeq(raw, 3, Len(raw) - 1)

\* ------------------------------------------------------------- the state

VARIABLES
    buckets,   \* the two-character directories under .git/objects
    files,     \* object files: <<bucket, entry>> -> the bytes in the file
    written,   \* history: <<kind, data, sha>> of every hash_object return
    ret,       \* the sequential program's call and its outcome ("again": history,
               \* whether hash_object was given an object it had stored before)
    tdata,     \* read_tree: the payload being decoded
    ti,        \* read_tree: the cursor i
    tout,      \* read_tree: the entries yielded so far
    tpc,       \* read_tree: "idle", "loop", "done" (exhausted) or "raised"
    wr,        \* concurrent hash_object calls: position and arguments
    fd         \* a concurrent find_object call: position and locals

vars == <<buckets, files, written, ret, tdata, ti, tout, tpc, wr, fd>>

\* ------------------------------------------------------------- bounds

\* The number of distinct objects hash_object may store.
MaxObjects == 2
\* The number of entries read_tree may yield before the model stops it.
MaxYield == 30

\* ------------------------------------------------------------- inputs

\* A well-formed tree payload of one entry: b"1 a\0" + 20 raw bytes.
OneEntryTree == <<49, SP, 97, NUL>> \o [n \in 1 .. ShaRawLen |-> 49]

Payloads == {<<>>, <<97, NUL, SP>>, OneEntryTree}
Objects == Kinds \X Payloads

\* ------------------------------------------------------------- filesystem

\* The old file removed on open, the new one appearing only when written.
OpenWbUnlink(fl, path) == [p \in DOMAIN fl \ {path} |-> fl[p]]

\* open(path, "wb"): the file is created, or truncated if it exists.
OpenWb(fl, path) == [p \in DOMAIN fl \cup {path} |-> IF p = path THEN <<>> ELSE fl[p]]

\* f.write(data) on a file just opened: data goes in at offset 0, over
\* whatever another writer of the same file has put there since.
FileBytes(fl, path) == IF path \in DOMAIN fl THEN fl[path] ELSE <<>>
WriteAt0(fl, path, data) ==
    [p \in DOMAIN fl \cup {path} |->
        IF p = path THEN data \o PySliceFrom(FileBytes(fl, path), Len(data)) ELSE fl[p]]

\* A mode of "ab" in place of "wb": the data is added to the file's end.
WriteAb(fl, path, data) ==
    [p \in DOMAIN fl \cup {path} |->
        IF p = path THEN FileBytes(fl, path) \o data ELSE fl[p]]

\* with open(path, "wb") as f: f.write(data)
WriteWb(fl, path, data) == WriteAt0(OpenWb(fl, path), path, data)

\* os.makedirs(parent, exist_ok=True)
MakeDirs(bk, d) == bk \cup {d}

\* file_io.write_file(path, data, mode="wb", make_dirs=True) on objects/d/f.
WriteFile(bk, fl, d, f, data) ==
    [buckets |-> MakeDirs(bk, d), files |-> WriteWb(fl, <<d, f>>, data)]

\* os.listdir(objects/d)
ListDir(fl, d) == {p[2] : p \in {q \in DOMAIN fl : q[1] = d}}

\* The bucket and the entry of an object name.
BucketOf(sha) == PySlice(sha, 0, BucketLen)
EntryOf(sha) == PySliceFrom(sha, BucketLen)

\* ------------------------------------------------------------- find_object

\* The matches of the brute-force scan of every bucket (len(name) < 2).
ScanAll(bk, fl, name) ==
    {d \o f : <<d, f>> \in {p \in DOMAIN fl : p[1] \in bk /\ StartsWith(p[1] \o p[2], name)}}

\* The bucket's entries compared with the whole name, not with name[2:].
ScanBucketWholeName(fl, name) ==
    {BucketOf(name) \o f : f \in {g \in ListDir(fl, BucketOf(name)) : StartsWith(g, name)}}

\* The matches within the one bucket name[:2] (2 <= len(name) < 40).
ScanBucket(fl, name) ==
    {BucketOf(name) \o f : f \in {g \in ListDir(fl, BucketOf(name)) : StartsWith(g, EntryOf(name))}}

\* The first match returned when there are several.
UniqueFirstMatch(matches) ==
    IF matches = {} THEN [status |-> "FileNotFoundError", sha |-> <<>>]
    ELSE [status |-> "ok", sha |-> CHOOSE m \in matches : TRUE]

\* The tail of find_object: no match, several matches, or the single match.
Unique(matches) ==
    IF matches = {} THEN [status |-> "FileNotFoundError", sha |-> <<>>]
    ELSE IF Cardinality(matches) > 1 THEN [status |-> "ValueError:ambiguous", sha |-> <<>>]
    ELSE [status |-> "ok", sha |-> CHOOSE m \in matches : TRUE]

find_object(bk, fl, name0) ==
    LET name == Lower(name0)
    IN IF Len(name) = ShaHexLen
       THEN IF <<BucketOf(name), EntryOf(name)>> \in DOMAIN fl
            THEN [status |-> "ok", sha |-> name]
            ELSE [status |-> "FileNotFoundError", sha |-> <<>>]
       ELSE IF Len(name) < BucketLen
       THEN Unique(ScanAll(bk, fl, name))
       ELSE IF BucketOf(name) \notin bk
       THEN [status |-> "FileNotFoundError", sha |-> <<>>]
       ELSE Unique(ScanBucket(fl, name))

\* ------------------------------------------------------------- read_object

\* Python's bytes.rfind(byte): the highest 0-based index, or -1.
PyRFind(s, b) ==
    LET hits == {n \in 0 .. (Len(s) - 1) : s[n + 1] = b}
    IN IF hits = {} THEN -1 ELSE CHOOSE n \in hits : \A m \in hits : n >= m

\* The decode with the split at the last NUL in place of the first.
ParseObjectLastNul(decompressed) ==
    LET header_end == PyRFind(decompressed, NUL)
        header == PySlice(decompressed, 0, header_end)
        data == PySliceFrom(decompressed, header_end + 1)
        sp == PyFind(header, SP, 0)
        obj_type == PySlice(header, 0, sp)
    IN IF sp = -1
       THEN [status |-> "ValueError:unpack", otype |-> <<>>, data |-> <<>>]
       ELSE IF ~Utf8Ok(obj_type)
       THEN [status |-> "UnicodeDecodeError", otype |-> <<>>, data |-> <<>>]
       ELSE [status |-> "ok", otype |-> obj_type, data |-> data]

\* The decode of the decompressed bytes: split at the first NUL, then the
\* header at its first space (header.split(b" ", 1) must give two parts).
ParseObject(decompressed) ==
    LET header_end == PyFind(decompressed, NUL, 0)
        header == PySlice(decompressed, 0, header_end)
        data == PySliceFrom(decompressed, header_end + 1)
        sp == PyFind(header, SP, 0)
        obj_type == PySlice(header, 0, sp)
    IN IF sp = -1
       THEN [status |-> "ValueError:unpack", otype |-> <<>>, data |-> <<>>]
       ELSE IF ~Utf8Ok(obj_type)
       THEN [status |-> "UnicodeDecodeError", otype |-> <<>>, data |-> <<>>]
       ELSE [status |-> "ok", otype |-> obj_type, data |-> data]

read_object(bk, fl, sha) ==
    LET found == find_object(bk, fl, sha)
    IN IF found.status # "ok"
       THEN [status |-> found.status, otype |-> <<>>, data |-> <<>>]
       ELSE IF ~ZlibOk(fl[<<BucketOf(found.sha), EntryOf(found.sha)>>])
       THEN [status |-> "zlib.error", otype |-> <<>>, data |-> <<>>]
       ELSE ParseObject(Decompress(fl[<<BucketOf(found.sha), EntryOf(found.sha)>>]))

\* ------------------------------------------------------------- read_tree

\* One pass through the loop body at cursor i < len(data): the loop breaks,
\* an exception is raised, or an entry is yielded and the cursor moves.
TreeIter(data, i) ==
    LET j == PyFind(data, SP, i)
        mode_str == PySlice(data, i, j)
        k == PyFind(data, NUL, j + 1)
        name == PySlice(data, j + 1, k)
        sha_raw == PySlice(data, k + 1, k + 1 + ShaRawLen)
        none == [mode |-> 0, name |-> <<>>, sha |-> <<>>]
    IN IF j = -1
       THEN [what |-> "break", status |-> "ok", entry |-> none, next |-> i]
       ELSE IF ~Utf8Ok(name)
       THEN [what |-> "raise", status |-> "UnicodeDecodeError", entry |-> none, next |-> i]
       ELSE IF ~IsOctal(mode_str)
       THEN [what |-> "raise", status |-> "ValueError:int", entry |-> none, next |-> i]
       ELSE [what |-> "yield", status |-> "ok",
             entry |-> [mode |-> OctalValue(mode_str), name |-> name, sha |-> Hex(sha_raw)],
             next |-> k + 1 + ShaRawLen]

\* cat_file's line for one entry: "{:06o} {} {}\t{}" and print's newline.
TreeLine(e) ==
    ZeroPad(Octal(e.mode), 6) \o <<SP>> \o (IF S_ISDIR(e.mode) THEN Tree ELSE Blob)
        \o <<SP>> \o e.sha \o <<TAB>> \o e.name \o <<NL>>

\* ------------------------------------------------------------- the calls

\* The mode strings cat_file knows, and the ones the model passes.
SizeModes == {<<45, 115>>, <<45, 45, 115, 105, 122, 101>>, <<115, 105, 122, 101>>}
TypeModes == {<<45, 116>>, <<45, 45, 116, 121, 112, 101>>, <<116, 121, 112, 101>>}
PrettyModes == {<<45, 112>>, <<45, 45, 112, 114, 101, 116, 116, 121>>,
                <<112, 114, 101, 116, 116, 121>>}
Pretty == <<112, 114, 101, 116, 116, 121>>
ModeInputs == Kinds \cup {<<115, 105, 122, 101>>, <<45, 116>>, Pretty, <<120>>}

\* The names the model passes: every prefix of every object name the
\* model's objects can have, in lower and in upper case.
AllShas == {HexDigest(Encode(o[1], o[2])) : o \in Objects}
Prefixes == {PySlice(sha, 0, k) : sha \in AllShas, k \in 0 .. ShaHexLen}
Names == Prefixes \cup {Upper(p) : p \in Prefixes}
\* read_object and cat_file are called with full names and two prefixes.
ShaArgs == {PySlice(sha, 0, k) : sha \in AllShas, k \in {1, 6, ShaHexLen}}

NoRet ==
    [op |-> "none", mode |-> <<>>, name |-> <<>>, kind |-> <<>>, payload |-> <<>>,
     status |-> "none", sha |-> <<>>, otype |-> <<>>, data |-> <<>>, stdout |-> <<>>,
     again |-> FALSE]

NoWriter == [pc |-> "idle", kind |-> <<>>, data |-> <<>>, sha |-> <<>>]
NoFinder == [pc |-> "idle", name |-> <<>>, todo |-> {}, matches |-> {},
             status |-> "none", sha |-> <<>>, before |-> {}]
Writers == {1, 2}

TreeIdle == tdata = <<>> /\ ti = 0 /\ tout = <<>> /\ tpc = "idle"
ConcIdle == wr = [w \in Writers |-> NoWriter] /\ fd = NoFinder

\* The single-threaded caller makes a call only when the previous one has
\* returned or raised and its outcome has been taken.
Ready == ret.op = "none" /\ tpc = "idle"

\* hash_object(data, obj_type): encode, digest, compress, write, return sha.
hash_object(kind, data) ==
    LET full == Encode(kind, data)
        sha == HexDigest(full)
        fs == WriteFile(buckets, files, BucketOf(sha), EntryOf(sha), Compress(full))
    IN /\ Ready
       /\ \/ <<BucketOf(sha), EntryOf(sha)>> \in DOMAIN files
          \/ Cardinality(DOMAIN files) < MaxObjects
       /\ buckets' = fs.buckets
       /\ files' = fs.files
       /\ written' = written \cup {<<kind, data, sha>>}
       /\ ret' = [NoRet EXCEPT !.op = "hash_object", !.kind = kind, !.payload = data,
                               !.status = "ok", !.sha = sha,
                               !.again = (\E w \in written : w[1] = kind /\ w[2] = data)]
       /\ UNCHANGED <<tdata, ti, tout, tpc, wr, fd>>

\* find_object(name)
FindObjectCall(name) ==
    LET r == find_object(buckets, files, name)
    IN /\ Ready
       /\ ret' = [NoRet EXCEPT !.op = "find_object", !.name = name,
                               !.status = r.status, !.sha = r.sha]
       /\ UNCHANGED <<buckets, files, written, tdata, ti, tout, tpc, wr, fd>>

\* read_object(sha)
ReadObjectCall(sha) ==
    LET r == read_object(buckets, files, sha)
    IN /\ Ready
       /\ ret' = [NoRet EXCEPT !.op = "read_object", !.name = sha,
                               !.status = r.status, !.otype = r.otype, !.data = r.data]
       /\ UNCHANGED <<buckets, files, written, tdata, ti, tout, tpc, wr, fd>>

\* cat_file's size, type and pretty modes, and its unexpected-mode error.
CatFileView(call, mode, r) ==
    IF mode \in SizeModes
    THEN [call EXCEPT !.status = "ok", !.stdout = Decimal(Len(r.data)) \o <<NL>>]
    ELSE IF mode \in TypeModes
    THEN [call EXCEPT !.status = "ok", !.stdout = r.otype \o <<NL>>]
    ELSE IF mode \in PrettyModes
    THEN IF r.otype \in {Commit, Blob}
         THEN [call EXCEPT !.status = "ok", !.stdout = r.data]
         ELSE IF r.otype = Tree
         THEN [call EXCEPT !.status = "running"]
         ELSE [call EXCEPT !.status = "AssertionError"]
    ELSE [call EXCEPT !.status = "ValueError:unexpected-mode"]

\* cat_file with the payload written before the type is compared.
CatFileWriteFirst(call, mode, r) ==
    IF r.status # "ok" THEN [call EXCEPT !.status = r.status]
    ELSE IF mode \in Kinds
    THEN IF r.otype # mode
         THEN [call EXCEPT !.status = "ValueError:expected-type", !.stdout = r.data]
         ELSE [call EXCEPT !.status = "ok", !.stdout = r.data]
    ELSE CatFileView(call, mode, r)

\* The outcome of cat_file(mode, sha) once read_object has given r, up to its
\* return, its raise, or the start of the loop over read_tree(data).
CatFileOutcome(call, mode, r) ==
    IF r.status # "ok" THEN [call EXCEPT !.status = r.status]
    ELSE IF mode \in Kinds
    THEN IF r.otype # mode
         THEN [call EXCEPT !.status = "ValueError:expected-type"]
         ELSE [call EXCEPT !.status = "ok", !.stdout = r.data]
    ELSE CatFileView(call, mode, r)

\* cat_file(mode, sha)
cat_file(mode, sha) ==
    LET r == read_object(buckets, files, sha)
        call == [NoRet EXCEPT !.op = "cat_file", !.mode = mode, !.name = sha,
                              !.otype = r.otype, !.data = r.data]
        out == CatFileOutcome(call, mode, r)
        loops == out.status = "running"
    IN /\ Ready
       /\ ret' = out
       /\ tdata' = IF loops THEN r.data ELSE <<>>
       /\ ti' = 0
       /\ tout' = <<>>
       /\ tpc' = IF loops THEN "loop" ELSE "idle"
       /\ UNCHANGED <<buckets, files, written, wr, fd>>

\* One step of cat_file's loop over read_tree(data): the generator runs to
\* its next yield (and cat_file prints the entry's line), to its end, or to
\* an exception, which cat_file lets through.
ReadTreeStep ==
    LET it == TreeIter(tdata, ti)
    IN /\ tpc = "loop"
       /\ Len(tout) < MaxYield
       /\ IF ~(ti < Len(tdata)) \/ it.what = "break"
          THEN /\ tpc' = "done"
               /\ ret' = [ret EXCEPT !.status = "ok"]
               /\ UNCHANGED <<ti, tout>>
          ELSE IF it.what = "raise"
          THEN /\ tpc' = "raised"
               /\ ret' = [ret EXCEPT !.status = it.status]
               /\ UNCHANGED <<ti, tout>>
          ELSE /\ tpc' = "loop"
               /\ tout' = Append(tout, it.entry)
               /\ ti' = it.next
               /\ ret' = [ret EXCEPT !.stdout = ret.stdout \o TreeLine(it.entry)]
       /\ UNCHANGED <<buckets, files, written, tdata, wr, fd>>

\* The caller takes the outcome of a call that returned or raised.
Return ==
    /\ ret.op # "none"
    /\ tpc # "loop"
    /\ ret' = NoRet
    /\ tdata' = <<>>
    /\ ti' = 0
    /\ tout' = <<>>
    /\ tpc' = "idle"
    /\ UNCHANGED <<buckets, files, written, wr, fd>>

\* ------------------------------------------------------------- the program

\* After init(): .git/objects exists and is empty.
Init ==
    /\ buckets = {}
    /\ files = <<>>
    /\ written = {}
    /\ ret = NoRet
    /\ TreeIdle
    /\ ConcIdle

Next ==
    \/ \E o \in Objects : hash_object(o[1], o[2])
    \/ \E name \in Names : FindObjectCall(name)
    \/ \E sha \in ShaArgs : ReadObjectCall(sha)
    \/ \E mode \in ModeInputs, sha \in ShaArgs : cat_file(mode, sha)
    \/ ReadTreeStep
    \/ Return

Spec == Init /\ [][Next]_vars

\* ------------------------------------------- cat_file -p on a tree object

\* The number of entry-like pieces a tree payload of the model is made of.
MaxPieces == 2

\* 20 raw SHA-1 bytes: some not ASCII digits, the last four ASCII "1".
RawSha == [n \in 1 .. ShaRawLen |-> IF n > 16 THEN 49 ELSE 97]

\* Entries as hash_object's caller may put them in a tree payload:
\* well-formed (a file, a directory) and malformed in one way each.
Pieces ==
    { <<49, SP, 97, NUL>> \o RawSha,                   \* b"1 a\0" + sha
      <<52, 48, 48, 48, 48, SP, 97, NUL>> \o RawSha,   \* b"40000 a\0" + sha
      <<49, 97, NUL>> \o RawSha,                       \* no space
      <<49, SP, 97>> \o RawSha,                        \* no NUL
      <<49, SP, 97>>,                                  \* no NUL, no sha
      <<49, SP, 97, NUL>> \o PySlice(RawSha, 0, 19),   \* 19 sha bytes
      <<97, SP, 97, NUL>> \o RawSha,                   \* mode not octal
      <<49, SP, 255, NUL>> \o RawSha }                 \* name not UTF-8

RECURSIVE PieceSeqs(_)
PieceSeqs(n) ==
    IF n = 0 THEN {<<>>}
    ELSE PieceSeqs(n - 1) \cup {p \o q : p \in PieceSeqs(n - 1), q \in Pieces}

TreePayloads == PieceSeqs(MaxPieces)

\* hash_object(data, "tree") has stored the payload and cat_file("pretty",
\* sha) has read it back and is about to loop over read_tree(data).
InitTree ==
    \E data \in TreePayloads :
        LET full == Encode(Tree, data)
            sha == HexDigest(full)
            fs == WriteFile({}, <<>>, BucketOf(sha), EntryOf(sha), Compress(full))
            r == read_object(fs.buckets, fs.files, sha)
            call == [NoRet EXCEPT !.op = "cat_file", !.mode = Pretty, !.name = sha,
                                  !.otype = r.otype, !.data = r.data]
        IN /\ buckets = fs.buckets
           /\ files = fs.files
           /\ written = {<<Tree, data, sha>>}
           /\ ret = CatFileOutcome(call, Pretty, r)
           /\ tdata = r.data
           /\ ti = 0
           /\ tout = <<>>
           /\ tpc = "loop"
           /\ ConcIdle

NextTree == ReadTreeStep

SpecTree == InitTree /\ [][NextTree]_vars

\* ------------------------------------------- read_object on foreign bytes

\* The length of the decompressed bytes found at an object's location.
MaxFrameLen == 4

FrameBytes == {NUL, SP, 97, 49}

RECURSIVE FramesOf(_)
FramesOf(n) ==
    IF n = 0 THEN {<<>>}
    ELSE FramesOf(n - 1) \cup {f \o <<b>> : f \in FramesOf(n - 1), b \in FrameBytes}

Frames == FramesOf(MaxFrameLen)

\* The name of the one object file of these states.
ForeignSha == Hex([n \in 1 .. ShaRawLen |-> 171])

\* An object file not written by hash_object (another tool's, or damaged):
\* a complete zlib stream of some bytes.
InitFrame ==
    \E frame \in Frames :
        /\ buckets = {BucketOf(ForeignSha)}
        /\ files = WriteWb(<<>>, <<BucketOf(ForeignSha), EntryOf(ForeignSha)>>, Compress(frame))
        /\ written = {}
        /\ ret = NoRet
        /\ TreeIdle
        /\ ConcIdle

NextFrame ==
    \/ \E k \in {6, ShaHexLen} : ReadObjectCall(PySlice(ForeignSha, 0, k))
    \/ Return

SpecFrame == InitFrame /\ [][NextFrame]_vars

\* ------------------------------------- calls running at the same time

\* Each filesystem call of hash_object and of find_object is one step.

\* Three objects, two of them in one bucket.
ConcObjects == {<<Blob, <<>>>>, <<Tree, <<97, NUL, SP>>>>, <<Blob, <<97, NUL, SP>>>>}
ConcShas == {HexDigest(Encode(o[1], o[2])) : o \in ConcObjects}
ConcNames == {PySlice(sha, 0, k) : sha \in ConcShas, k \in {1, 2, ShaHexLen}}

PathOf(sha) == <<BucketOf(sha), EntryOf(sha)>>
seqvars == <<ret, tdata, ti, tout, tpc>>

\* hash_object up to the write: encode, digest, compress.
WStart(w, kind, data) ==
    /\ wr[w].pc = "idle"
    /\ wr' = [wr EXCEPT ![w] = [pc |-> "makedirs", kind |-> kind, data |-> data,
                                sha |-> HexDigest(Encode(kind, data))]]
    /\ UNCHANGED <<buckets, files, written, fd, seqvars>>

\* write_file: os.makedirs(parent, exist_ok=True)
WMakeDirs(w) ==
    /\ wr[w].pc = "makedirs"
    /\ buckets' = MakeDirs(buckets, BucketOf(wr[w].sha))
    /\ wr' = [wr EXCEPT ![w].pc = "open"]
    /\ UNCHANGED <<files, written, fd, seqvars>>

\* write_file: open(path, "wb")
WOpen(w) ==
    /\ wr[w].pc = "open"
    /\ files' = OpenWb(files, PathOf(wr[w].sha))
    /\ wr' = [wr EXCEPT ![w].pc = "write"]
    /\ UNCHANGED <<buckets, written, fd, seqvars>>

\* write_file: f.write(data), the file closed; hash_object returns sha.
WWrite(w) ==
    /\ wr[w].pc = "write"
    /\ files' = WriteAt0(files, PathOf(wr[w].sha), Compress(Encode(wr[w].kind, wr[w].data)))
    /\ written' = written \cup {<<wr[w].kind, wr[w].data, wr[w].sha>>}
    /\ wr' = [wr EXCEPT ![w] = NoWriter]
    /\ UNCHANGED <<buckets, fd, seqvars>>

\* find_object(name) up to its first filesystem call; "before" records the
\* names hash_object has returned by now.
FStart(name) ==
    /\ fd.pc = "idle"
    /\ fd' = [NoFinder EXCEPT
                !.pc = IF Len(name) = ShaHexLen THEN "exists"
                       ELSE IF Len(name) < BucketLen THEN "listobjects" ELSE "isdir",
                !.name = Lower(name),
                !.before = {x[3] : x \in written}]
    /\ UNCHANGED <<buckets, files, written, wr, seqvars>>

\* os.path.exists(obj_path)
FExists ==
    /\ fd.pc = "exists"
    /\ fd' = IF PathOf(fd.name) \in DOMAIN files
             THEN [fd EXCEPT !.pc = "done", !.status = "ok", !.sha = fd.name]
             ELSE [fd EXCEPT !.pc = "done", !.status = "FileNotFoundError"]
    /\ UNCHANGED <<buckets, files, written, wr, seqvars>>

\* os.listdir(objects_dir)
FListObjects ==
    /\ fd.pc = "listobjects"
    /\ fd' = [fd EXCEPT !.pc = "scan", !.todo = buckets]
    /\ UNCHANGED <<buckets, files, written, wr, seqvars>>

\* One bucket of the scan: os.path.isdir(dirpath), os.listdir(dirpath).
FScanDir(d) ==
    /\ fd.pc = "scan"
    /\ d \in fd.todo
    /\ fd' = [fd EXCEPT !.todo = fd.todo \ {d},
                        !.matches = fd.matches \cup
                            {d \o f : f \in {g \in ListDir(files, d) : StartsWith(d \o g, fd.name)}}]
    /\ UNCHANGED <<buckets, files, written, wr, seqvars>>

\* The scan is over.
FScanEnd ==
    /\ fd.pc = "scan"
    /\ fd.todo = {}
    /\ fd' = [fd EXCEPT !.pc = "done", !.status = Unique(fd.matches).status,
                        !.sha = Unique(fd.matches).sha]
    /\ UNCHANGED <<buckets, files, written, wr, seqvars>>

\* os.path.isdir(dirpath) of the bucket name[:2]
FIsDir ==
    /\ fd.pc = "isdir"
    /\ fd' = IF BucketOf(fd.name) \notin buckets
             THEN [fd EXCEPT !.pc = "done", !.status = "FileNotFoundError"]
             ELSE [fd EXCEPT !.pc = "listbucket"]
    /\ UNCHANGED <<buckets, files, written, wr, seqvars>>

\* os.listdir(dirpath) of the bucket, and the matches among its entries.
FListBucket ==
    /\ fd.pc = "listbucket"
    /\ fd' = [fd EXCEPT !.pc = "done", !.status = Unique(ScanBucket(files, fd.name)).status,
                        !.sha = Unique(ScanBucket(files, fd.name)).sha]
    /\ UNCHANGED <<buckets, files, written, wr, seqvars>>

\* The caller takes find_object's outcome.
FReturn ==
    /\ fd.pc = "done"
    /\ fd' = NoFinder
    /\ UNCHANGED <<buckets, files, written, wr, seqvars>>

NextConc ==
    \/ \E w \in Writers, o \in ConcObjects : WStart(w, o[1], o[2])
    \/ \E w \in Writers : WMakeDirs(w)
    \/ \E w \in Writers : WOpen(w)
    \/ \E w \in Writers : WWrite(w)
    \/ \E name \in ConcNames : FStart(name)
    \/ FExists
    \/ FListObjects
    \/ \E d \in buckets : FScanDir(d)
    \/ FScanEnd
    \/ FIsDir
    \/ FListBucket
    \/ FReturn

SpecConc == Init /\ [][NextConc]_vars

\* ------------------------------------------------------------- properties

StoredShas == {w[3] : w \in written}

\* C1 (round trip): when read_object is given a name that hash_object
\* returned for (kind, payload), whatever else has been stored before or
\* since, it returns exactly (kind, payload).
C1_RoundTrip ==
    \A w \in written :
        (ret.op = "read_object" /\ ret.name = w[3])
            => (ret.status = "ok" /\ ret.otype = w[1] /\ ret.data = w[2])

\* read_object has returned a stored object whose payload holds a NUL and a
\* space, with another object in the store.
C1_Witness ==
    /\ ret.op = "read_object"
    /\ ret.name \in StoredShas
    /\ ret.status = "ok"
    /\ \E n \in 1 .. Len(ret.data) : ret.data[n] = NUL
    /\ Cardinality(written) >= 2

\* C2 (idempotence): a hash_object call with a (kind, payload) stored before
\* returns the name it returned then, without error, and leaves the store
\* as it was: the same buckets, the same files with the same bytes, one of
\* them at bucket sha[:2], entry sha[2:].
C2_Idempotent ==
    [][\A w \in written :
         (ret.op = "none" /\ ret'.op = "hash_object"
            /\ ret'.kind = w[1] /\ ret'.payload = w[2])
         => /\ ret'.status = "ok"
            /\ ret'.sha = w[3]
            /\ buckets' = buckets
            /\ files' = files
            /\ <<PySlice(w[3], 0, 2), PySliceFrom(w[3], 2)>> \in DOMAIN files']_vars

\* hash_object has returned from a second call with the same object, while
\* the store holds another object too.
C2_Witness ==
    /\ ret.op = "hash_object"
    /\ ret.again
    /\ ret.status = "ok"
    /\ Cardinality(DOMAIN files) >= 2

\* C3 (prefix resolution): find_object given id[:k], 0 <= k <= 40, for a
\* stored id that is the only stored name starting with id[:k], returns id.
C3_PrefixResolves ==
    \A id \in StoredShas :
        (/\ ret.op = "find_object"
         /\ StartsWith(id, ret.name)
         /\ \A other \in StoredShas : StartsWith(other, ret.name) => other = id)
            => (ret.status = "ok" /\ ret.sha = id)

\* find_object has resolved a one-character prefix by the scan of every
\* bucket, with two objects stored.
C3_Witness ==
    /\ ret.op = "find_object"
    /\ Len(ret.name) = 1
    /\ ret.status = "ok"
    /\ ret.sha \in StoredShas
    /\ Cardinality(StoredShas) = 2

\* C4 (ambiguity): find_object given a prefix that two distinct stored names
\* start with raises the ambiguous-prefix error, whatever its length.
C4_Ambiguous ==
    \A a \in StoredShas, b \in StoredShas :
        (/\ ret.op = "find_object"
         /\ a # b
         /\ StartsWith(a, ret.name)
         /\ StartsWith(b, ret.name))
            => (ret.status = "ValueError:ambiguous" /\ ret.sha = <<>>)

\* find_object was given a prefix of 39 characters that two stored names
\* share.
C4_Witness ==
    /\ ret.op = "find_object"
    /\ Len(ret.name) = 39
    /\ ret.status = "ValueError:ambiguous"
    /\ \E a \in StoredShas, b \in StoredShas :
          a # b /\ StartsWith(a, ret.name) /\ StartsWith(b, ret.name)

\* C5 (exact-kind view): cat_file with mode blob, tree or commit on a stored
\* object writes the payload and nothing else if the object is of that
\* kind, and otherwise raises the type-mismatch error, nothing written.
C5_ExactKind ==
    \A w \in written :
        (ret.op = "cat_file" /\ ret.mode \in Kinds /\ ret.name = w[3])
            => IF w[1] = ret.mode
               THEN ret.status = "ok" /\ ret.stdout = w[2]
               ELSE ret.status = "ValueError:expected-type" /\ ret.stdout = <<>>

\* cat_file was asked for a tree and the stored object is a blob with a
\* payload of several bytes.
C5_Witness ==
    /\ ret.op = "cat_file"
    /\ ret.mode = Tree
    /\ ret.status = "ValueError:expected-type"
    /\ \E w \in written : w[3] = ret.name /\ w[1] = Blob /\ Len(w[2]) > 0

\* A frame as the codec's decode contract wants it: a NUL, and before the
\* first NUL exactly two tokens separated by one space, the second a
\* non-negative decimal number.
FrameWellFormed(bs) ==
    \E z \in 1 .. Len(bs) :
        /\ bs[z] = NUL
        /\ \A n \in 1 .. (z - 1) : bs[n] # NUL
        /\ \E sp \in 2 .. (z - 2) :
              /\ bs[sp] = SP
              /\ \A n \in 1 .. (z - 1) : n # sp => bs[n] # SP
              /\ \A n \in (sp + 1) .. (z - 1) : bs[n] >= 48 /\ bs[n] <= 57

\* C6 (malformed frame): read_object of an object file whose decompressed
\* bytes are not a well-formed frame raises; it returns no (kind, payload).
C6_MalformedFrameRaises ==
    \A p \in DOMAIN files :
        (/\ ret.op = "read_object"
         /\ ret.name = p[1] \o p[2]
         /\ ZlibOk(files[p])
         /\ ~FrameWellFormed(Decompress(files[p])))
            => ret.status \notin {"ok", "none"}

\* The tree payload from cursor i on is a run of complete entries: each has
\* its space, then its NUL, then 20 bytes.
RECURSIVE WellFormedFrom(_, _)
WellFormedFrom(data, i) ==
    IF i = Len(data) THEN TRUE
    ELSE LET j == PyFind(data, SP, i)
             k == PyFind(data, NUL, j + 1)
         IN /\ j # -1
            /\ k # -1
            /\ k + 21 <= Len(data)
            /\ WellFormedFrom(data, k + 21)

\* The entries of the payload from cursor i on, each taken from its own
\* bytes, up to the first entry that is incomplete or has no octal mode or
\* no UTF-8 name.
RECURSIVE RefEntries(_, _)
RefEntries(data, i) ==
    IF i = Len(data) THEN <<>>
    ELSE LET j == PyFind(data, SP, i)
             k == PyFind(data, NUL, j + 1)
         IN IF j = -1 \/ k = -1 \/ k + 21 > Len(data) THEN <<>>
            ELSE IF ~IsOctal(SubSeq(data, i + 1, j)) \/ ~Utf8Ok(SubSeq(data, j + 2, k))
            THEN <<>>
            ELSE <<[mode |-> OctalValue(SubSeq(data, i + 1, j)),
                    name |-> SubSeq(data, j + 2, k),
                    sha |-> Hex(SubSeq(data, k + 2, k + 21))]>>
                 \o RefEntries(data, k + 21)

RECURSIVE LinesOf(_)
LinesOf(es) == IF Len(es) = 0 THEN <<>> ELSE TreeLine(es[1]) \o LinesOf(Tail(es))

\* C7 (malformed tree payload): read_tree does not end without an error on
\* a payload with an incomplete entry, and every entry it yields is the
\* payload's entry at that place, name and child hash from its own bytes.
C7_MalformedTreeRaises ==
    /\ tpc = "done" => WellFormedFrom(tdata, 0)
    /\ \A n \in 1 .. Len(tout) :
          /\ n <= Len(RefEntries(tdata, 0))
          /\ tout[n] = RefEntries(tdata, 0)[n]

\* C8 (no garbled output): what cat_file has printed of a tree is the lines
\* of the payload's first entries, correctly decoded, and cat_file does not
\* return without an error when the payload is malformed.
C8_NoGarbledOutput ==
    (ret.op = "cat_file" /\ ret.mode \in PrettyModes /\ ret.otype = Tree)
        => /\ \E m \in 0 .. Len(RefEntries(ret.data, 0)) :
                 ret.stdout = LinesOf(SubSeq(RefEntries(ret.data, 0), 1, m))
           /\ ret.status = "ok" => WellFormedFrom(ret.data, 0)

\* C9 (resolution under concurrent writes): find_object given a full name
\* that hash_object had returned before the call started returns that name,
\* however its steps interleave with those of concurrent hash_object calls.
C9_ResolveUnderWrites ==
    (fd.pc = "done" /\ Len(fd.name) = ShaHexLen /\ fd.name \in fd.before)
        => (fd.status = "ok" /\ fd.sha = fd.name)

\* find_object has resolved a name stored before it started while a
\* concurrent hash_object has truncated that very file and not yet written it.
C9_Witness ==
    /\ fd.pc = "done"
    /\ Len(fd.name) = ShaHexLen
    /\ fd.name \in fd.before
    /\ fd.status = "ok"
    /\ \E w \in Writers : wr[w].pc = "write" /\ wr[w].sha = fd.name
    /\ files[PathOf(fd.name)] = <<>>

\* C10 (tree decode terminates): read_tree yields no more entries than the
\* payload has bytes.
C10_TreeDecodeTerminates == Len(tout) <= Len(tdata)

====
